---- MODULE Spec2Model ----
(***************************************************************************)
(* Directory-listing cache (package fscache): an access-ordered, size- and *)
(* time-bounded cache of directory listings, guarded by one mutex.  The    *)
(* cacheEntry objects live in a heap of handles; prev/next/head/tail are   *)
(* handles, NIL is the nil pointer.  Readdir is modelled on top of         *)
(* GetEntries (SpecReaddir); the construction of the block cache, package  *)
(* block, newBlockCache, is a separate specification (SpecBlock).          *)
(***************************************************************************)
EXTENDS Integers, Sequences, FiniteSets, TLC

\* ---- bounds of the model ----
NumProcs == 2        \* goroutines calling GetEntries
MaxHandles == 4      \* cacheEntry objects alive at the same time
MaxTime == 1         \* clock ticks
MaxTTL == 1          \* largest expirationTime
MaxLen == 1          \* longest listing a loader returns
MaxDirsCfg == 2      \* largest configured maxDirectories
MaxEntriesCfg == 2   \* largest configured maxDirectoryEntries
EvictFuel == 8       \* iterations of the eviction loop that are unrolled
MaxDays == 1         \* expiration periods the clock of Readdir callers runs through
MaxSize == 1         \* largest absolute value of CachingOptions.MaxCacheSizeBytes
MaxSweeps == 2       \* periodic sweeps of the block cache that are followed

NIL == 0
Procs == 1..NumProcs
Handles == 1..MaxHandles
IdSeq == <<"", "a", "b">>
Ids == {IdSeq[i] : i \in 1..Len(IdSeq)}
TTLs == 1..MaxTTL
\* Readdir passes 24 * time.Hour; for its callers the clock counts hours
cacheExpiration == 24
\* fs.Entries values a loader can return: the listings of 0..MaxLen entries
Listings == {[i \in 1..k |-> i] : k \in 0..MaxLen}

VARIABLES
  c,                     \* the Cache: head, tail, totalDirectoryEntries, data, and the heap ent
  maxDirectories,        \* c.maxDirectories
  maxDirectoryEntries,   \* c.maxDirectoryEntries
  mutex,                 \* holder of c's sync.Mutex, NIL when free
  fr,                    \* per goroutine: position in GetEntries and its arguments
  now,                   \* time.Now()
  order,                 \* ids in the map by time of last insertion or hit, newest first
  last,                  \* outcome of the GetEntries call that returned in the last step, if any
  bc                     \* one call of newBlockCache: its position, arguments, environment and result

vars == <<c, maxDirectories, maxDirectoryEntries, mutex, fr, now, order, last, bc>>

\* ---- cacheEntry and the heap ----
cacheEntry(id, exp, entries) ==
  [id |-> id, prev |-> NIL, next |-> NIL, expireAfter |-> exp, entries |-> entries]

BlankEntry == cacheEntry("", 0, <<>>)

lenData(data) == Cardinality({i \in Ids : data[i] # NIL})

Range(seq) == {seq[i] : i \in 1..Len(seq)}

\* the objects the program can still reach, in the order a traversal from
\* head, tail and the map values finds them
Roots(s) == SelectSeq(<<s.head, s.tail>> \o [i \in 1..Len(IdSeq) |-> s.data[IdSeq[i]]],
                      LAMBDA h : h # NIL)

RECURSIVE Dedup(_, _)
Dedup(seq, acc) ==
  IF seq = <<>> THEN acc
  ELSE Dedup(Tail(seq), IF Head(seq) \in Range(acc) THEN acc ELSE Append(acc, Head(seq)))

RECURSIVE Trav(_, _, _)
Trav(ent, seq, i) ==
  IF i > Len(seq) THEN seq
  ELSE LET n == ent[seq[i]].next
           p == ent[seq[i]].prev
           s1 == IF n # NIL /\ n \notin Range(seq) THEN Append(seq, n) ELSE seq
           s2 == IF p # NIL /\ p \notin Range(s1) THEN Append(s1, p) ELSE s1
       IN Trav(ent, s2, i + 1)

Reach(s) == Range(Trav(s.ent, Dedup(Roots(s), <<>>), 1))

\* garbage collection: unreachable objects are freed and the reachable ones
\* are renumbered in traversal order (a pointer is only ever compared for
\* equality, so the numbering is unobservable)
Renaming(s) ==
  LET t == Trav(s.ent, Dedup(Roots(s), <<>>), 1)
  IN [h \in Handles \cup {NIL} |->
        IF h \in Range(t) THEN CHOOSE i \in 1..Len(t) : t[i] = h ELSE NIL]

Collect(s) ==
  LET t == Trav(s.ent, Dedup(Roots(s), <<>>), 1)
      ren == Renaming(s)
  IN [head |-> ren[s.head], tail |-> ren[s.tail],
      totalDirectoryEntries |-> s.totalDirectoryEntries,
      data |-> [i \in Ids |-> ren[s.data[i]]],
      ent |-> [h \in Handles |->
                 IF h <= Len(t)
                 THEN [s.ent[t[h]] EXCEPT !.prev = ren[@], !.next = ren[@]]
                 ELSE BlankEntry]]

\* ---- list operations ----
remove(s, e) ==
  LET s1 == IF s.ent[e].prev = NIL
            THEN [s EXCEPT !.head = s.ent[e].next]
            ELSE [s EXCEPT !.ent[s.ent[e].prev].next = s.ent[e].next]
  IN IF s1.ent[e].next = NIL
     THEN [s1 EXCEPT !.tail = s1.ent[e].prev]
     ELSE [s1 EXCEPT !.ent[s1.ent[e].next].prev = s1.ent[e].prev]

addToHead(s, e) ==
  IF s.head # NIL
  THEN LET s1 == [s EXCEPT !.ent[e].next = s.head]
           s2 == [s1 EXCEPT !.ent[s1.head].prev = e]
       IN [s2 EXCEPT !.head = e]
  ELSE [s EXCEPT !.head = e, !.tail = e]

moveToHead(s, e) ==
  IF e = s.head THEN s ELSE addToHead(remove(s, e), e)

removeEntryLocked(s, toremove) ==
  LET s1 == remove(s, toremove)
  IN [s1 EXCEPT !.totalDirectoryEntries = @ - Len(s1.ent[toremove].entries),
                !.data[s1.ent[toremove].id] = NIL]

\* ---- the eviction loop of GetEntries ----
\* faulty variant: the loop stops as soon as one of the two bounds holds
overBudgetBoth(s, maxD, maxE) ==
  s.totalDirectoryEntries > maxE /\ lenData(s.data) > maxD

overBudget(s, maxD, maxE) ==
  s.totalDirectoryEntries > maxE \/ lenData(s.data) > maxD

shape(s) == [s EXCEPT !.totalDirectoryEntries = 0]

\* runs the loop from state s; e is the entry just inserted.  victims lists
\* what each iteration removed: the id of c.tail, whether c.tail was the entry
\* just inserted and whether the map held c.tail under that id.  seen holds
\* the states at the earlier loop heads: the loop never ends once a state
\* recurs, or once the links and the map recur while the map is too large
\* (the counter only decreases).
RECURSIVE evictLoop(_, _, _, _, _, _)
evictLoop(s, e, maxD, maxE, victims, seen) ==
  IF ~overBudget(s, maxD, maxE) THEN [out |-> "ok", s |-> s, victims |-> victims]
  ELSE IF s.tail = NIL THEN [out |-> "panic", s |-> s, victims |-> victims]
  ELSE IF \/ s \in seen
          \/ lenData(s.data) > maxD /\ shape(s) \in {shape(t) : t \in seen}
       THEN [out |-> "hang", s |-> s, victims |-> victims]
  ELSE IF Len(victims) >= EvictFuel THEN [out |-> "fuel", s |-> s, victims |-> victims]
  ELSE LET v == [id |-> s.ent[s.tail].id, new |-> (s.tail = e),
                 mapped |-> (s.data[s.ent[s.tail].id] = s.tail)]
       IN evictLoop(removeEntryLocked(s, s.tail), e, maxD, maxE,
                    Append(victims, v), seen \cup {s})

\* ---- the recency bookkeeping ----
without(seq, x) == SelectSeq(seq, LAMBDA y : y # x)
touch(seq, x) == <<x>> \o without(seq, x)

\* ids deleted from the map by the eviction loop
RECURSIVE evictOrder(_, _)
evictOrder(seq, victims) ==
  IF victims = <<>> THEN seq
  ELSE evictOrder(without(seq, Head(victims).id), Tail(victims))

\* ---- initial state: NewCache with options ----
emptyCache ==
  [head |-> NIL, tail |-> NIL, totalDirectoryEntries |-> 0,
   data |-> [i \in Ids |-> NIL], ent |-> [h \in Handles |-> BlankEntry]]

\* pre is the Cache as the call found it when c.Lock() returned
\* readdir: the call of GetEntries was made by Readdir
idleFrame == [pc |-> "idle", id |-> "", pre |-> emptyCache, readdir |-> FALSE]
noCall == [kind |-> "none", id |-> "", ret |-> <<>>, e |-> NIL, victims |-> <<>>,
           pre |-> emptyCache]

\* CachingOptions, as far as newBlockCache reads them
CachingOptions ==
  [MaxCacheSizeBytes : -MaxSize..MaxSize, CacheDirectory : {"", "cache"},
   IgnoreListCache : BOOLEAN]

\* a call of newBlockCache about to start: dirExists and listCached are the
\* state of the file system under CacheDirectory, dir0 and list0 that state as
\* the call found it, steps the operations the call has performed so far
blockFrame(caching, dirExists, listCached) ==
  [pc |-> "start", caching |-> caching,
   dirExists |-> dirExists, listCached |-> listCached,
   dir0 |-> dirExists, list0 |-> listCached,
   cache |-> "none", err |-> FALSE, steps |-> <<>>,
   bg |-> FALSE, sweeps |-> 0, closed |-> FALSE, closeCalled |-> FALSE]

\* the program of the directory-listing cache constructs no block cache
noBlockCache ==
  [blockFrame([MaxCacheSizeBytes |-> 0, CacheDirectory |-> "",
               IgnoreListCache |-> FALSE], FALSE, FALSE)
     EXCEPT !.pc = "unused"]

Init ==
  /\ bc = noBlockCache
  /\ c = emptyCache
  /\ maxDirectories \in 0..MaxDirsCfg
  /\ maxDirectoryEntries \in 0..MaxEntriesCfg
  /\ mutex = NIL
  /\ fr = [p \in Procs |-> idleFrame]
  /\ now = 0
  /\ order = <<>>
  /\ last = noCall

\* a panic ends the program; a goroutine that spins in the eviction loop keeps
\* the lock while the others go on
running == \A q \in Procs : fr[q].pc \notin {"panic", "fuel"}

\* ---- GetEntries, step by step ----
\* entry into GetEntries on a non-nil Cache, up to c.Lock()
Call(p) ==
  /\ running
  /\ fr[p].pc = "idle"
  /\ fr' = [fr EXCEPT ![p].pc = "lock"]
  /\ last' = noCall
  /\ UNCHANGED <<c, maxDirectories, maxDirectoryEntries, mutex, now, order, bc>>

\* c.Lock() returns; id is the argument of the call, first read after this point
Lock(p) ==
  /\ running
  /\ fr[p].pc = "lock"
  /\ mutex = NIL
  /\ mutex' = p
  /\ \E id \in Ids :
       fr' = [fr EXCEPT ![p] = [@ EXCEPT !.pc = "lookup", !.id = id, !.pre = c]]
  /\ last' = noCall
  /\ UNCHANGED <<c, maxDirectories, maxDirectoryEntries, now, order, bc>>

found(p) == fr[p].id # "" /\ c.data[fr[p].id] # NIL

LookupHit(p) ==
  /\ running
  /\ fr[p].pc = "lookup"
  /\ found(p)
  /\ now < c.ent[c.data[fr[p].id]].expireAfter
  /\ LET v == c.data[fr[p].id]
         s == moveToHead(c, v)
     IN /\ c' = Collect(s)
        /\ last' = [kind |-> "hit", id |-> fr[p].id, ret |-> c.ent[v].entries,
                    e |-> Renaming(s)[v], victims |-> <<>>, pre |-> fr[p].pre]
  /\ order' = touch(order, fr[p].id)
  /\ mutex' = NIL
  /\ fr' = [fr EXCEPT ![p] = idleFrame]
  /\ UNCHANGED <<maxDirectories, maxDirectoryEntries, now, bc>>

LookupExpired(p) ==
  /\ running
  /\ fr[p].pc = "lookup"
  /\ found(p)
  /\ ~(now < c.ent[c.data[fr[p].id]].expireAfter)
  /\ LET v == c.data[fr[p].id]
     IN /\ c' = Collect(removeEntryLocked(c, v))
        /\ order' = without(order, c.ent[v].id)
  /\ fr' = [fr EXCEPT ![p].pc = "load"]
  /\ last' = noCall
  /\ UNCHANGED <<maxDirectories, maxDirectoryEntries, mutex, now, bc>>

LookupMiss(p) ==
  /\ running
  /\ fr[p].pc = "lookup"
  /\ ~found(p)
  /\ fr' = [fr EXCEPT ![p].pc = "load"]
  /\ last' = noCall
  /\ UNCHANGED <<c, maxDirectories, maxDirectoryEntries, mutex, now, order, bc>>

\* faulty variant: a failed load drops the whole cache
LoadFailClears(p) ==
  /\ running
  /\ fr[p].pc = "load"
  /\ last' = [kind |-> "err", id |-> fr[p].id, ret |-> <<>>, e |-> NIL, victims |-> <<>>,
              pre |-> fr[p].pre]
  /\ fr' = [fr EXCEPT ![p] = idleFrame]
  /\ c' = emptyCache
  /\ order' = <<>>
  /\ UNCHANGED <<maxDirectories, maxDirectoryEntries, mutex, now, bc>>

\* cb() returns an error
LoadFail(p) ==
  /\ running
  /\ fr[p].pc = "load"
  /\ last' = [kind |-> "err", id |-> fr[p].id, ret |-> <<>>, e |-> NIL, victims |-> <<>>,
              pre |-> fr[p].pre]
  /\ fr' = [fr EXCEPT ![p] = idleFrame]
  /\ UNCHANGED <<c, maxDirectories, maxDirectoryEntries, mutex, now, order, bc>>

\* cb() returns more entries than maxDirectoryEntries
LoadOversized(p) ==
  /\ running
  /\ fr[p].pc = "load"
  /\ \E raw \in Listings :
       /\ Len(raw) > maxDirectoryEntries
       /\ last' = [kind |-> "oversized", id |-> fr[p].id, ret |-> raw, e |-> NIL,
                   victims |-> <<>>, pre |-> fr[p].pre]
  /\ mutex' = NIL
  /\ fr' = [fr EXCEPT ![p] = idleFrame]
  /\ UNCHANGED <<c, maxDirectories, maxDirectoryEntries, now, order, bc>>

Free(s) == Handles \ Reach(s)

insertEntry(s, e, id, exp, raw) ==
  LET s0 == [s EXCEPT !.ent[e] = cacheEntry(id, exp, raw)]
      s1 == addToHead(s0, e)
      s2 == [s1 EXCEPT !.data[id] = e]
  IN [s2 EXCEPT !.totalDirectoryEntries = @ + Len(raw)]

\* the values of the expirationTime argument of the call
expirations(p) == IF fr[p].readdir THEN {cacheExpiration} ELSE TTLs

\* cb() returns a listing that fits: insert it and evict
LoadInsert(p) ==
  /\ running
  /\ fr[p].pc = "load"
  /\ Free(c) # {}
  /\ \E raw \in Listings, expirationTime \in expirations(p) :
       /\ ~(Len(raw) > maxDirectoryEntries)
       /\ LET e == CHOOSE h \in Free(c) : \A g \in Free(c) : h <= g
              s == insertEntry(c, e, fr[p].id, now + expirationTime, raw)
              r == evictLoop(s, e, maxDirectories, maxDirectoryEntries, <<>>, {})
          IN /\ c' = Collect(r.s)
             /\ order' = evictOrder(touch(order, fr[p].id), r.victims)
             /\ IF r.out = "ok"
                THEN /\ mutex' = NIL
                     /\ fr' = [fr EXCEPT ![p] = idleFrame]
                     /\ last' = [kind |-> "insert", id |-> fr[p].id, ret |-> raw,
                                 e |-> Renaming(r.s)[e], victims |-> r.victims,
                                 pre |-> fr[p].pre]
                ELSE /\ mutex' = mutex
                     /\ fr' = [fr EXCEPT ![p].pc = r.out]
                     /\ last' = noCall
  /\ UNCHANGED <<maxDirectories, maxDirectoryEntries, now, bc>>

Tick ==
  /\ running
  /\ now < MaxTime
  /\ now' = now + 1
  /\ last' = noCall
  /\ UNCHANGED <<c, maxDirectories, maxDirectoryEntries, mutex, fr, order, bc>>

Next ==
  \/ \E p \in Procs : Call(p)
  \/ \E p \in Procs : Lock(p)
  \/ \E p \in Procs : LookupHit(p)
  \/ \E p \in Procs : LookupExpired(p)
  \/ \E p \in Procs : LookupMiss(p)
  \/ \E p \in Procs : LoadFail(p)
  \/ \E p \in Procs : LoadOversized(p)
  \/ \E p \in Procs : LoadInsert(p)
  \/ Tick

Spec == Init /\ [][Next]_vars

TypeOK ==
  /\ now \in 0..MaxTime
  /\ mutex \in Procs \cup {NIL}
  /\ \A p \in Procs : fr[p].pc \in {"idle", "lock", "lookup", "load", "panic", "hang"}
  /\ maxDirectories \in 0..MaxDirsCfg
  /\ maxDirectoryEntries \in 0..MaxEntriesCfg

\* the unrolling of the eviction loop is never cut short
NoFuel == \A p \in Procs : fr[p].pc # "fuel"

\* ---- Readdir ----
\* faulty variant: reading a directory without an object id drops the cache
ReaddirDirectClears(p) ==
  /\ running
  /\ fr[p].pc = "idle"
  /\ \/ \E res \in Listings :
          last' = [kind |-> "direct", id |-> "", ret |-> res, e |-> NIL,
                   victims |-> <<>>, pre |-> c]
     \/ last' = [kind |-> "directErr", id |-> "", ret |-> <<>>, e |-> NIL,
                 victims |-> <<>>, pre |-> c]
  /\ c' = emptyCache
  /\ order' = <<>>
  /\ UNCHANGED <<maxDirectories, maxDirectoryEntries, mutex, fr, now, bc>>

\* d is not a repo.HasObjectID: return d.Readdir(), entries or error
ReaddirDirect(p) ==
  /\ running
  /\ fr[p].pc = "idle"
  /\ \/ \E res \in Listings :
          last' = [kind |-> "direct", id |-> "", ret |-> res, e |-> NIL,
                   victims |-> <<>>, pre |-> c]
     \/ last' = [kind |-> "directErr", id |-> "", ret |-> <<>>, e |-> NIL,
                 victims |-> <<>>, pre |-> c]
  /\ UNCHANGED <<c, maxDirectories, maxDirectoryEntries, mutex, fr, now, order, bc>>

\* d is a repo.HasObjectID: c.GetEntries(cacheID, cacheExpiration, d.Readdir),
\* up to c.Lock(); cacheID is read by Lock
ReaddirCached(p) ==
  /\ running
  /\ fr[p].pc = "idle"
  /\ fr' = [fr EXCEPT ![p].pc = "lock", ![p].readdir = TRUE]
  /\ last' = noCall
  /\ UNCHANGED <<c, maxDirectories, maxDirectoryEntries, mutex, now, order, bc>>

\* the clock, in hours, seen every expiration period
TickHours ==
  /\ running
  /\ now + cacheExpiration <= MaxDays * cacheExpiration
  /\ now' = now + cacheExpiration
  /\ last' = noCall
  /\ UNCHANGED <<c, maxDirectories, maxDirectoryEntries, mutex, fr, order, bc>>

NextReaddir ==
  \/ \E p \in Procs : ReaddirDirect(p)
  \/ \E p \in Procs : ReaddirCached(p)
  \/ \E p \in Procs : Lock(p)
  \/ \E p \in Procs : LookupHit(p)
  \/ \E p \in Procs : LookupExpired(p)
  \/ \E p \in Procs : LookupMiss(p)
  \/ \E p \in Procs : LoadFail(p)
  \/ \E p \in Procs : LoadOversized(p)
  \/ \E p \in Procs : LoadInsert(p)
  \/ TickHours

SpecReaddir == Init /\ [][NextReaddir]_vars

\* ---- callers of GetEntries and of Readdir side by side ----
\* a cache with room for every identifier, which keeps empty listings only
InitRoomy ==
  /\ bc = noBlockCache
  /\ c = emptyCache
  /\ maxDirectories = Cardinality(Ids)
  /\ maxDirectoryEntries = 0
  /\ mutex = NIL
  /\ fr = [p \in Procs |-> idleFrame]
  /\ now = 0
  /\ order = <<>>
  /\ last = noCall

\* entries cached by Readdir outlive the ones cached with a short expirationTime
NextMixed ==
  \/ \E p \in Procs : Call(p)
  \/ \E p \in Procs : ReaddirCached(p)
  \/ \E p \in Procs : Lock(p)
  \/ \E p \in Procs : LookupHit(p)
  \/ \E p \in Procs : LookupExpired(p)
  \/ \E p \in Procs : LookupMiss(p)
  \/ \E p \in Procs : LoadFail(p)
  \/ \E p \in Procs : LoadOversized(p)
  \/ \E p \in Procs : LoadInsert(p)
  \/ Tick

SpecMixed == InitRoomy /\ [][NextMixed]_vars

\* ---- newBlockCache ----
fscacheVars == <<c, maxDirectories, maxDirectoryEntries, mutex, fr, now, order, last>>

InitBlock ==
  /\ \E caching \in CachingOptions, dirExists \in BOOLEAN, listCached \in BOOLEAN :
       bc = blockFrame(caching, dirExists, listCached)
  /\ c = emptyCache
  /\ maxDirectories = 0
  /\ maxDirectoryEntries = 0
  /\ mutex = NIL
  /\ fr = [p \in Procs |-> idleFrame]
  /\ now = 0
  /\ order = <<>>
  /\ last = noCall

\* faulty variant: caching is disabled only when both settings are unset
cachingDisabledBoth(caching) ==
  caching.MaxCacheSizeBytes = 0 /\ caching.CacheDirectory = ""

cachingDisabled(caching) ==
  caching.MaxCacheSizeBytes = 0 \/ caching.CacheDirectory = ""

fail(b) == [b EXCEPT !.pc = "done", !.err = TRUE]

\* the first branch: return nullBlockCache{st}, nil
selectVariant ==
  /\ bc.pc = "start"
  /\ bc' = IF cachingDisabled(bc.caching)
           THEN [bc EXCEPT !.pc = "done", !.cache = "nullBlockCache"]
           ELSE [bc EXCEPT !.pc = "stat"]
  /\ UNCHANGED fscacheVars

\* os.Stat(blockCacheDir): nil, an error that os.IsNotExist accepts, or
\* another error; only the second leads to MkdirAll
osStat ==
  /\ bc.pc = "stat"
  /\ \E res \in {"ok", "notExist", "other"} :
       /\ res = "ok" => bc.dirExists
       /\ res = "notExist" => ~bc.dirExists
       /\ bc' = [bc EXCEPT !.pc = IF res = "notExist" THEN "mkdir" ELSE "open"]
  /\ UNCHANGED fscacheVars

osMkdirAll ==
  /\ bc.pc = "mkdir"
  /\ \/ bc' = [bc EXCEPT !.pc = "open", !.dirExists = TRUE,
                          !.steps = Append(@, "MkdirAll")]
     \/ bc' = fail(bc)
  /\ UNCHANGED fscacheVars

\* filesystem.New succeeds and c is built with an open closed channel, or fails
filesystemNew ==
  /\ bc.pc = "open"
  /\ \/ bc' = [bc EXCEPT !.pc = "ignore", !.steps = Append(@, "filesystem.New")]
     \/ bc' = fail(bc)
  /\ UNCHANGED fscacheVars

\* if caching.IgnoreListCache { c.deleteListCache(ctx) }
deleteListCache ==
  /\ bc.pc = "ignore"
  /\ bc' = IF bc.caching.IgnoreListCache
           THEN [bc EXCEPT !.pc = "sweep", !.listCached = FALSE,
                           !.steps = Append(@, "deleteListCache")]
           ELSE [bc EXCEPT !.pc = "sweep"]
  /\ UNCHANGED fscacheVars

\* faulty variant: the error of the first sweep is dropped
sweepDirectoryUnchecked ==
  /\ bc.pc = "sweep"
  /\ \/ bc' = [bc EXCEPT !.pc = "go", !.steps = Append(@, "sweepDirectory")]
     \/ bc' = [bc EXCEPT !.pc = "go", !.steps = Append(@, "sweepDirectory failed")]
  /\ UNCHANGED fscacheVars

\* c.sweepDirectory(ctx) returns nil or an error
sweepDirectory ==
  /\ bc.pc = "sweep"
  /\ \/ bc' = [bc EXCEPT !.pc = "go", !.steps = Append(@, "sweepDirectory")]
     \/ bc' = [fail(bc) EXCEPT !.steps = Append(@, "sweepDirectory failed")]
  /\ UNCHANGED fscacheVars

\* go c.sweepDirectoryPeriodically(ctx)
goSweepDirectoryPeriodically ==
  /\ bc.pc = "go"
  /\ bc' = [bc EXCEPT !.pc = "return", !.bg = TRUE, !.steps = Append(@, "go")]
  /\ UNCHANGED fscacheVars

\* return c, nil
returnCache ==
  /\ bc.pc = "return"
  /\ bc' = [bc EXCEPT !.pc = "done", !.cache = "localStorageCache"]
  /\ UNCHANGED fscacheVars

\* one round of the background task: it sweeps again until the cache is closed
sweepDirectoryPeriodically ==
  /\ bc.bg
  /\ ~bc.closed
  /\ bc.sweeps < MaxSweeps
  /\ bc' = [bc EXCEPT !.sweeps = @ + 1]
  /\ UNCHANGED fscacheVars

\* the caller closes the cache it was given, once: the local-storage cache
\* signals its background task to stop, the null cache does nothing
close ==
  /\ bc.pc = "done"
  /\ bc.cache # "none"
  /\ ~bc.closeCalled
  /\ bc' = [bc EXCEPT !.closeCalled = TRUE,
                      !.closed = (bc.cache = "localStorageCache")]
  /\ UNCHANGED fscacheVars

NextBlock ==
  \/ selectVariant
  \/ osStat
  \/ osMkdirAll
  \/ filesystemNew
  \/ deleteListCache
  \/ sweepDirectory
  \/ goSweepDirectoryPeriodically
  \/ returnCache
  \/ sweepDirectoryPeriodically
  \/ close

SpecBlock == InitBlock /\ [][NextBlock]_vars

\* ---- observations used by the properties ----
\* sum of len(entries) over the values of the map
RECURSIVE sumOver(_, _)
sumOver(s, i) ==
  IF i > Len(IdSeq) THEN 0
  ELSE (IF s.data[IdSeq[i]] = NIL THEN 0 ELSE Len(s.ent[s.data[IdSeq[i]]].entries))
       + sumOver(s, i + 1)
sumCached(s) == sumOver(s, 1)

\* the entries met by following next from head, up to nil or the first repeat
RECURSIVE follow(_, _, _)
follow(ent, h, acc) ==
  IF h = NIL \/ h \in Range(acc) THEN acc ELSE follow(ent, ent[h].next, Append(acc, h))
listOf(s) == follow(s.ent, s.head, <<>>)

returned(kind) == last.kind = kind

\* C1: after each GetEntries call that inserted an entry, totalDirectoryEntries
\* equals the sum of len(entries) over the entries stored in the data map, and
\* the number of cached directories equals the size of the map.
C1_CounterInvariant ==
  returned("insert") =>
    /\ c.totalDirectoryEntries = sumCached(c)
    /\ Cardinality({c.data[i] : i \in Ids} \ {NIL}) = lenData(c.data)

\* C2: whenever a GetEntries call that inserted an entry has returned,
\* totalDirectoryEntries <= maxDirectoryEntries and len(data) <= maxDirectories.
C2_Bounds ==
  returned("insert") =>
    /\ c.totalDirectoryEntries <= maxDirectoryEntries
    /\ lenData(c.data) <= maxDirectories

\* an inserting call that had to evict, because of either bound, has returned
C2_Witness ==
  /\ returned("insert")
  /\ Len(last.victims) > 0
  /\ lenData(c.data) > 0

\* C3 as stated: when the loader fails, the cache (map, list, counter) is the
\* same after the call as before it, whatever the prior state.
C3_FailureLeavesCacheUntouched ==
  returned("err") => c = last.pre

\* the expired entry a failing call found under its id, NIL if none
expiredFound == 
  IF last.id # "" THEN last.pre.data[last.id] ELSE NIL

\* C3 amended: when the loader fails, the error is returned and the failure
\* itself changes nothing: the cache is as the call found it, except that an
\* expired entry found under the requested id has been removed by
\* removeEntryLocked before the loader ran.
C3_FailureKeepsLookupState ==
  returned("err") =>
    /\ last.ret = <<>>
    /\ IF expiredFound = NIL
       THEN c = last.pre
       ELSE /\ last.pre.ent[expiredFound].expireAfter <= now
            /\ c = Collect(removeEntryLocked(last.pre, expiredFound))

\* a loader failed after the call had removed an expired entry from a cache
\* that still holds other entries
C3_Witness ==
  /\ returned("err")
  /\ expiredFound # NIL
  /\ c # last.pre
  /\ c.head # NIL

\* C4: every GetEntries call releases the lock before it returns, on every
\* path: the lock is free whenever no call is between Lock and its return.
C4_LockReleased ==
  (\A p \in Procs : fr[p].pc \in {"idle", "lock"}) => mutex = NIL

\* the ids of the entries linked from head, in list order
idsOf(s) == [i \in 1..Len(listOf(s)) |-> s.ent[listOf(s)[i]].id]

\* C5: lookup, promotion, insertion and eviction happen only under the lock,
\* at most one loader is in flight, a caller that looks up never finds a map
\* entry that is not linked, and concurrent misses for one identifier never
\* leave two entries for that identifier in the cache.
C5_SerializedMisses ==
  /\ \A p \in Procs : fr[p].pc \in {"lookup", "load", "hang", "panic"} => mutex = p
  /\ Cardinality({p \in Procs : fr[p].pc = "load"}) <= 1
  /\ \A p \in Procs : fr[p].pc = "lookup" =>
       \A i \in Ids : c.data[i] # NIL =>
         c.data[i] \in Range(listOf(c)) /\ c.ent[c.data[i]].id = i
  /\ \A i, j \in 1..Len(idsOf(c)) : i # j => idsOf(c)[i] # idsOf(c)[j]

\* C6: in every reachable state the entries reached from head by next links
\* are exactly the values of the data map, each once and each stored under
\* its own id.
C6_OneEntryPerId ==
  /\ Range(listOf(c)) = {c.data[i] : i \in Ids} \ {NIL}
  /\ \A i \in Ids : c.data[i] # NIL => c.ent[c.data[i]].id = i
  /\ Len(listOf(c)) = lenData(c.data)
  /\ (listOf(c) # <<>> => c.ent[listOf(c)[Len(listOf(c))]].next = NIL)

\* C7: a lookup of a cached identifier strictly before its expireAfter returns
\* the stored entries without calling the loader; at or after expireAfter it
\* does not return them, removes the entry and goes on to the loader.
C7_Expiration ==
  [][\A p \in Procs :
       (fr[p].pc = "lookup" /\ fr'[p].pc # "lookup" /\ c.data[fr[p].id] # NIL) =>
         IF now < c.ent[c.data[fr[p].id]].expireAfter
         THEN /\ fr'[p].pc = "idle"
              /\ last'.kind = "hit"
              /\ last'.ret = c.ent[c.data[fr[p].id]].entries
         ELSE /\ fr'[p].pc = "load"
              /\ last'.kind = "none"
              /\ c'.data[fr[p].id] = NIL]_vars

\* C8: a hit makes its entry the most recently used, so every eviction removes
\* the cached entry whose last insertion or hit is oldest: the victims of an
\* insertion are cached entries, taken from the old end of the recency order.
C8_EvictsLeastRecentlyUsed ==
  [][last'.kind = "insert" =>
       LET recency == touch(order, last'.id)
       IN \A i \in 1..Len(last'.victims) :
            /\ last'.victims[i].mapped
            /\ i <= Len(recency)
            /\ last'.victims[i].id = recency[Len(recency) + 1 - i]]_vars

\* C9: the eviction loop never removes the entry just inserted while another
\* entry remains, and with maxDirectories >= 1 the inserted entry is still
\* cached when the call returns.
C9_NewEntrySpared ==
  returned("insert") =>
    /\ \A i \in 1..Len(last.victims) :
         last.victims[i].new => (i = Len(last.victims) /\ c.head = NIL)
    /\ maxDirectories >= 1 => (last.e # NIL /\ c.data[last.id] = last.e)

\* the cached listing under id, <<"none">> if the map has no entry
cachedUnder(s, id) ==
  IF s.data[id] = NIL THEN <<"none">>
  ELSE <<s.ent[s.data[id]].entries, s.ent[s.data[id]].expireAfter>>

\* C10: an oversized result is returned to the caller, no entry for its
\* identifier is in the cache afterwards, and no other cached entry is evicted.
C10_OversizedNotCached ==
  returned("oversized") =>
    /\ Len(last.ret) > maxDirectoryEntries
    /\ c.data[last.id] = NIL
    /\ \A i \in Ids \ {last.id} : cachedUnder(c, i) = cachedUnder(last.pre, i)

\* ---- the access-order list as a sequence ----
\* what an entry holds, apart from its links
descOf(s, h) == <<s.ent[h].id, s.ent[h].entries, s.ent[h].expireAfter>>
descsOf(s) == [i \in 1..Len(listOf(s)) |-> descOf(s, listOf(s)[i])]

\* seq without its k-th element
dropAt(seq, k) == [i \in 1..(Len(seq) - 1) |-> IF i < k THEN seq[i] ELSE seq[i + 1]]
\* the position of x in seq, 0 if absent
posIn(seq, x) == IF x \in Range(seq) THEN CHOOSE i \in 1..Len(seq) : seq[i] = x ELSE 0

\* C14: in every reachable state head.prev is nil, tail.next is nil, every
\* linked entry e with a successor has e.next.prev = e, following next from
\* head reaches tail without a cycle, and head and tail are nil exactly when
\* the map is empty.
C14_ListWellFormed ==
  /\ c.head # NIL => c.ent[c.head].prev = NIL
  /\ c.tail # NIL => c.ent[c.tail].next = NIL
  /\ \A i \in 1..Len(listOf(c)) :
       LET e == listOf(c)[i]
       IN c.ent[e].next # NIL => c.ent[c.ent[e].next].prev = e
  /\ listOf(c) # <<>> =>
       /\ listOf(c)[Len(listOf(c))] = c.tail
       /\ c.ent[c.tail].next = NIL
  /\ (c.head = NIL) = (lenData(c.data) = 0)
  /\ (c.tail = NIL) = (lenData(c.data) = 0)

\* C15: when GetEntries finds an expired entry, whatever its position and
\* history, afterwards the list is the previous list with exactly that entry
\* deleted and the order of the others kept, head and tail are the first and
\* last remaining entries (nil if none remains), and the removed entry is no
\* longer reachable from head or tail.
C15_ExpiredRemoval ==
  [][\A p \in Procs :
       (/\ fr[p].pc = "lookup" /\ fr'[p].pc = "load"
        /\ fr[p].id # "" /\ c.data[fr[p].id] # NIL) =>
         LET k == posIn(listOf(c), c.data[fr[p].id])
             l == listOf(c')
         IN /\ k # 0
            /\ descsOf(c') = dropAt(descsOf(c), k)
            /\ c'.head = (IF l = <<>> THEN NIL ELSE l[1])
            /\ c'.tail = (IF l = <<>> THEN NIL ELSE l[Len(l)])
            /\ Cardinality(Reach(c')) = Len(l)]_vars

\* id and listing of each description
briefOf(seq) == [i \in 1..Len(seq) |-> <<seq[i][1], seq[i][2]>>]

\* the fewest entries to take from the old end of a list of descriptions so
\* that at most maxE listed files and at most maxD directories remain
RECURSIVE lenSum(_)
lenSum(seq) == IF seq = <<>> THEN 0 ELSE Len(Head(seq)[2]) + lenSum(Tail(seq))
fits(seq, maxD, maxE) == lenSum(seq) <= maxE /\ Len(seq) <= maxD
keepCount(seq, maxD, maxE) ==
  CHOOSE n \in 0..Len(seq) :
    /\ fits(SubSeq(seq, 1, n), maxD, maxE)
    /\ \A m \in (n + 1)..Len(seq) : ~fits(SubSeq(seq, 1, m), maxD, maxE)

C17_EvictionTerminates ==
  /\ \A p \in Procs : fr[p].pc \notin {"hang", "panic"}
  /\ returned("insert") =>
       /\ Len(last.victims) <= Len(listOf(last.pre)) + 1
       /\ \A i \in 1..Len(last.victims) : last.victims[i].mapped
       /\ \A i, j \in 1..Len(last.victims) :
            i # j => last.victims[i].id # last.victims[j].id

\* the entries of the map in the order in which the list from head holds them
mappedOf(s) == SelectSeq(listOf(s), LAMBDA h : s.data[s.ent[h].id] = h)

\* C18: a hit on an entry that has not expired leaves the cached identifiers,
\* every payload, every expireAfter and totalDirectoryEntries unchanged, does
\* not call the loader, and keeps the relative order of the other entries.
C18_HitChangesOnlyOrder ==
  [][\A p \in Procs :
       (fr[p].pc = "lookup" /\ last'.kind = "hit") =>
         LET v == c.data[fr[p].id]
             before == SelectSeq(mappedOf(c), LAMBDA h : h # v)
             after == SelectSeq(mappedOf(c'), LAMBDA h : h # last'.e)
         IN /\ fr'[p].pc = "idle"
            /\ \A i \in Ids : cachedUnder(c', i) = cachedUnder(c, i)
            /\ c'.totalDirectoryEntries = c.totalDirectoryEntries
            /\ last'.ret = c.ent[v].entries
            /\ [i \in 1..Len(after) |-> descOf(c', after[i])]
                 = [i \in 1..Len(before) |-> descOf(c, before[i])]]_vars

\* C13: Readdir on a directory without an object id calls the directory's own
\* Readdir and leaves the map, the list and the counters as they are; on a
\* directory with an object id it is a GetEntries call whose expirationTime is
\* 24 hours, so what it caches expires 24 hours after the call.
C13_ReaddirRule ==
  [][\A p \in Procs :
       /\ (fr[p].pc = "idle" /\ last'.kind \in {"direct", "directErr"}) =>
            /\ c' = c /\ order' = order /\ mutex' = mutex /\ fr' = fr
       /\ (fr[p].pc = "idle" /\ fr'[p].pc = "lock") =>
            /\ fr'[p].readdir
            /\ c' = c /\ order' = order /\ mutex' = mutex
       /\ (fr[p].pc = "load" /\ last'.kind = "insert" /\ last'.e # NIL) =>
            /\ fr[p].readdir
            /\ descOf(c', last'.e) = <<last'.id, last'.ret, now + cacheExpiration>>
       /\ (fr[p].pc = "lookup" /\ last'.kind = "hit") =>
            now < c'.ent[last'.e].expireAfter]_vars

\* a directory without an object id is read while listings cached by Readdir
\* for 24 hours are in the cache
C13_Witness ==
  /\ last.kind = "direct"
  /\ lenData(c.data) > 0
  /\ \E i \in Ids : c.data[i] # NIL /\ c.ent[c.data[i]].expireAfter = now + cacheExpiration

\* C11: newBlockCache returns the null variant exactly when MaxCacheSizeBytes
\* is 0 or CacheDirectory is empty; it then creates no directory, deletes no
\* cached listing (whatever IgnoreListCache says), sweeps nothing and starts
\* no background task; the variant, once chosen, never changes.
C11_VariantSelection ==
  /\ [](bc.pc = "done" =>
          /\ (bc.cache = "nullBlockCache") <=>
               (bc.caching.MaxCacheSizeBytes = 0 \/ bc.caching.CacheDirectory = "")
          /\ bc.cache = "nullBlockCache" =>
               /\ bc.steps = <<>> /\ ~bc.err
               /\ bc.dirExists = bc.dir0 /\ bc.listCached = bc.list0
               /\ ~bc.bg /\ bc.sweeps = 0 /\ ~bc.closed)
  /\ [][bc.cache # "none" =>
           (bc'.cache = bc.cache /\ bc'.caching = bc.caching)]_vars

\* the null variant was returned for an empty CacheDirectory although a size
\* and IgnoreListCache were set, the cached listing is still there, and the
\* cache has been closed
C11_Witness ==
  /\ bc.pc = "done" /\ bc.cache = "nullBlockCache"
  /\ bc.caching.MaxCacheSizeBytes # 0 /\ bc.caching.CacheDirectory = ""
  /\ bc.caching.IgnoreListCache /\ bc.listCached
  /\ bc.closeCalled

\* C12: for the local-storage variant newBlockCache deletes the cached listing
\* if IgnoreListCache is set, then sweeps once, then starts the background
\* task, then returns the cache; the background task runs only after the
\* first sweep succeeded, and when MkdirAll, filesystem.New or the first
\* sweep fails, no cache is returned and no background task is started.
C12_ConstructionOrder ==
  LET st == bc.steps
      k == Len(st)
  IN /\ bc.bg => (k >= 2 /\ st[k] = "go" /\ st[k - 1] = "sweepDirectory")
     /\ bc.sweeps > 0 => bc.bg
     /\ bc.cache = "localStorageCache" => (bc.bg /\ bc.pc = "done" /\ ~bc.err)
     /\ \A i \in 1..k :
          st[i] = "sweepDirectory" =>
            /\ i >= 2
            /\ \A j \in 1..k : st[j] = "sweepDirectory" => j = i
            /\ IF bc.caching.IgnoreListCache
               THEN st[i - 1] = "deleteListCache" /\ ~bc.listCached
               ELSE /\ st[i - 1] = "filesystem.New"
                    /\ \A j \in 1..k : st[j] # "deleteListCache"
                    /\ bc.listCached = bc.list0
     /\ bc.err => /\ bc.pc = "done" /\ bc.cache = "none"
                  /\ ~bc.bg /\ bc.sweeps = 0
                  /\ \A j \in 1..k : st[j] # "go"

\* a local-storage cache was returned after its directory was created and
\* the cached listing deleted, and its background task has swept since
C12_Witness ==
  /\ bc.cache = "localStorageCache"
  /\ bc.caching.IgnoreListCache /\ bc.list0
  /\ bc.steps = <<"MkdirAll", "filesystem.New", "deleteListCache", "sweepDirectory", "go">>
  /\ bc.sweeps > 0
====
